---- MODULE Spec2Model ----
(***************************************************************************)
(* Battery dispatch simulator of pages/07_BESS_Spreads.py:                 *)
(* validate_cycles, simulate_battery_operations and the part of main that  *)
(* calls them.  Times are minutes (a timestamp is minutes since midnight   *)
(* of day 0, a time of day is minutes since midnight).  The float          *)
(* quantities of the code (MW, MWh, EUR, hours, efficiency) are exact      *)
(* rationals <<numerator, denominator>> with a positive denominator, in    *)
(* lowest terms; binary64 rounding is not modelled.                        *)
(***************************************************************************)
EXTENDS Integers, Sequences, FiniteSets, TLC

VARIABLES
    entry,      \* "main": the page's main(); "call": simulate_battery_operations called directly
    pc,         \* position in the program
    cfg,        \* battery configuration (the widgets' values / the call's arguments)
    df,         \* the price series, sorted by datetime_parsed
    is_valid,   \* validate_cycles' verdict, "none" before it ran
    interval_hours,          \* hours per interval, from the detected resolution
    idx,                     \* the row being / to be processed (1-based)
    date,                    \* the groupby key of the day being processed
    soc,                     \* state of charge within the day loop
    cumulative_net_revenue,  \* running P&L over all days
    out,        \* the columns written to df, one record per processed row
    metrics,    \* the dictionary compute_bess_metrics returns, <<>> before
    \* the PV engine (captured_prices.py and the pages built on it)
    stage,              \* position in the PV engine
    prices_df,          \* the price series of load_price_series
    pv_df,              \* the PV profile of load_pv_profile
    joined_df,          \* the frame join_price_with_pv returns
    group_cols,         \* the grouping column of the aggregation applied
    captured_price_df,  \* result of compute_captured_price_aggregations
    captured_factor_df, \* result of compute_captured_factor_aggregations
    effective_price_df, \* result of compute_ppa_effective_price_aggregations
    strike,             \* the PPA strike price
    ppa,                \* the dictionary compute_ppa_metrics returns, <<>> before
    \* helpers called on their own (chart_config.py, utils.py, backfill_omie.py)
    call,               \* the helper called, "none" when none is
    arg,                \* its argument
    locals,             \* the local variables of a call that runs in steps
    returned,           \* whether the call has returned
    result              \* what it returned, <<>> before

battery_vars == <<entry, pc, cfg, df, is_valid, interval_hours, idx, date, soc,
                  cumulative_net_revenue, out, metrics>>

engine_vars == <<stage, prices_df, pv_df, joined_df, group_cols,
                 captured_price_df, captured_factor_df, effective_price_df,
                 strike, ppa>>

call_vars == <<call, arg, locals, returned, result>>

vars == <<battery_vars, engine_vars, call_vars>>

---------------------------------------------------------------------------
(* Bounds of the model *)

\* number of calendar days in a price series
NumDays == 2
\* a price series holds the hours 0..MaxHour of each of its days
MaxHour == 2

---------------------------------------------------------------------------
(* Exact arithmetic standing for the code's float expressions *)

Abs(n) == IF n < 0 THEN -n ELSE n

RECURSIVE GCD(_, _)
GCD(a, b) == IF b = 0 THEN a ELSE GCD(b, a % b)

\* the rational n/d (d > 0) in lowest terms
Rat(n, d) == LET g == GCD(Abs(n), d) IN <<n \div g, d \div g>>

Zero == <<0, 1>>
RAdd(a, b) == Rat(a[1] * b[2] + b[1] * a[2], a[2] * b[2])
RSub(a, b) == Rat(a[1] * b[2] - b[1] * a[2], a[2] * b[2])
RMul(a, b) == Rat(a[1] * b[1], a[2] * b[2])
\* a / b for b > 0
RDiv(a, b) == Rat(a[1] * b[2], a[2] * b[1])
RNeg(a) == <<-a[1], a[2]>>
RLt(a, b) == a[1] * b[2] < b[1] * a[2]
RLe(a, b) == a[1] * b[2] <= b[1] * a[2]
RMin(a, b) == IF RLt(b, a) THEN b ELSE a
RAbs(a) == <<Abs(a[1]), a[2]>>

\* the sum of a sequence of rationals (Series.sum())
RECURSIVE RSumTo(_, _)
RSumTo(s, n) == IF n = 0 THEN Zero ELSE RAdd(RSumTo(s, n - 1), s[n])
RSum(s) == RSumTo(s, Len(s))

---------------------------------------------------------------------------
(* Inputs *)

\* Optional[time] = None
NoTime == -1
MinutesPerDay == 24 * 60

\* capacity_mw (MW)
Powers == {<<1, 1>>, <<5, 2>>}
\* duration_hours, in minutes
Durations == {30, 60, 90}
\* the efficiency slider, in percent
Efficiencies == {90, 100}
\* time_input_with_arrows: top of the hour only (00:00, 01:00, 02:00)
Times == {0, 60, 120}
\* minutes between two rows of a series: quarter-hourly or hourly data
Steps == {15, 60}
\* prices (EUR/MWh) of a series, repeated along its rows
PriceProfiles == {<<10, 100>>, <<2, 5, -1, 0, 3>>}

\* the rows load_price_data returns: the hours 0..MaxHour of NumDays days
Series(step, prices) ==
    LET perDay == (MaxHour + 1) * (60 \div step)
    IN  [k \in 1..(NumDays * perDay) |->
            [datetime_parsed |-> ((k - 1) \div perDay) * MinutesPerDay
                                   + ((k - 1) % perDay) * step,
             price_eur_per_mwh |-> prices[((k - 1) % Len(prices)) + 1]]]

\* a series whose last day holds its last hour only (the range ends there)
ShortLastDay(d) ==
    LET last == d[Len(d)].datetime_parsed
        keep(r) == \/ r.datetime_parsed \div MinutesPerDay # last \div MinutesPerDay
                   \/ r.datetime_parsed = last
    IN  SelectSeq(d, keep)

\* the price series the battery page is run on
SeriesSet ==
    {Series(step, prices) : step \in Steps, prices \in PriceProfiles}
    \cup {ShortLastDay(Series(60, <<10, 100>>))}

Configs ==
    [capacity_mw : Powers, duration_min : Durations, efficiency_pct : Efficiencies,
     charge1 : Times, discharge1 : Times,
     charge2 : {NoTime}, discharge2 : {NoTime}]
    \cup
    [capacity_mw : Powers, duration_min : Durations, efficiency_pct : Efficiencies,
     charge1 : Times, discharge1 : Times,
     charge2 : Times, discharge2 : Times]

---------------------------------------------------------------------------
(* validate_cycles *)

\* charge == discharge let through: > in place of >=
validate_cycles_NonStrict(charge1, discharge1, charge2, discharge2) ==
    IF charge2 = NoTime \/ discharge2 = NoTime
    THEN ~(charge1 > discharge1)
    ELSE IF charge1 > discharge1 THEN FALSE
    ELSE IF charge2 > discharge2 THEN FALSE
    ELSE IF discharge2 <= charge1 THEN TRUE
    ELSE IF charge2 >= discharge1 THEN TRUE
    ELSE FALSE

validate_cycles(charge1, discharge1, charge2, discharge2) ==
    IF charge2 = NoTime \/ discharge2 = NoTime
    THEN ~(charge1 >= discharge1)
    ELSE IF charge1 >= discharge1 THEN FALSE
    ELSE IF charge2 >= discharge2 THEN FALSE
    ELSE IF discharge2 <= charge1 THEN TRUE
    ELSE IF charge2 >= discharge1 THEN TRUE
    ELSE FALSE

---------------------------------------------------------------------------
(* simulate_battery_operations: set-up *)

duration_hours(c) == Rat(c.duration_min, 60)
efficiency(c) == Rat(c.efficiency_pct, 100)
capacity_mwh(c) == RMul(c.capacity_mw, duration_hours(c))

\* df["datetime_parsed"].diff().dropna()
time_diffs(d) ==
    [k \in 1..(Len(d) - 1) |-> d[k + 1].datetime_parsed - d[k].datetime_parsed]

\* the k-th smallest element of a non-empty sequence of numbers
KthSmallest(s, k) ==
    CHOOSE v \in {s[i] : i \in DOMAIN s} :
        /\ Cardinality({i \in DOMAIN s : s[i] < v}) < k
        /\ k <= Cardinality({i \in DOMAIN s : s[i] <= v})

\* twice the median of a non-empty sequence (the median of an even number of
\* values is the mean of the two middle ones)
MedianTimes2(s) ==
    LET n == Len(s)
    IN  IF n % 2 = 1
        THEN 2 * KthSmallest(s, (n + 1) \div 2)
        ELSE KthSmallest(s, n \div 2) + KthSmallest(s, n \div 2 + 1)

is_15min_data(d) ==
    IF Len(d) > 1
    THEN LET m2 == MedianTimes2(time_diffs(d)) IN m2 <= 2 * 20 /\ m2 >= 2 * 10
    ELSE FALSE

IntervalHours(d) == IF is_15min_data(d) THEN Rat(1, 4) ELSE Rat(1, 1)

\* df["date"] = df["datetime_parsed"].dt.date
DateOf(ts) == ts \div MinutesPerDay

---------------------------------------------------------------------------
(* simulate_battery_operations: one interval *)

\* start_dt <= dt < start_dt + Timedelta(hours=duration_hours), the window
\* anchored on the day being processed
InWindow_Overnight(c, day, start, dt) ==
    \E anchor \in {day - 1, day} :
        LET start_dt == anchor * MinutesPerDay + start
        IN  start_dt <= dt /\ dt < start_dt + c.duration_min

InWindow(c, day, start, dt) ==
    LET start_dt == day * MinutesPerDay + start
    IN  start_dt <= dt /\ dt < start_dt + c.duration_min

TwoCycles(c) == c.charge2 # NoTime /\ c.discharge2 # NoTime

IsCharging(c, day, dt) ==
    \/ InWindow(c, day, c.charge1, dt)
    \/ TwoCycles(c) /\ InWindow(c, day, c.charge2, dt)

IsDischarging(c, day, dt) ==
    \/ InWindow(c, day, c.discharge1, dt)
    \/ TwoCycles(c) /\ InWindow(c, day, c.discharge2, dt)

CycleNum(c, day, dt) ==
    IF TwoCycles(c) /\ (InWindow(c, day, c.charge2, dt) \/ InWindow(c, day, c.discharge2, dt))
    THEN 2
    ELSE IF InWindow(c, day, c.charge1, dt) \/ InWindow(c, day, c.discharge1, dt)
    THEN 1
    ELSE 0

\* charging given precedence when both windows match
Branch_ChargeFirst(is_charging, is_discharging) ==
    IF is_charging THEN "charge"
    ELSE IF is_discharging THEN "discharge"
    ELSE "idle"

\* the branch taken by the if / elif on is_charging and is_discharging
Branch(is_charging, is_discharging) ==
    IF is_charging /\ ~is_discharging THEN "charge"
    ELSE IF is_discharging /\ ~is_charging THEN "discharge"
    ELSE "idle"

\* charge_energy computed without the remaining capacity
ChargeEnergy_NoRemaining(c, ih, s) ==
    IF RLt(s, capacity_mwh(c)) THEN RMul(c.capacity_mw, ih) ELSE Zero

\* charge_energy; 0 when the battery is full
ChargeEnergy(c, ih, s) ==
    IF RLt(s, capacity_mwh(c))
    THEN RMin(RMul(c.capacity_mw, ih), RSub(capacity_mwh(c), s))
    ELSE Zero

\* a loss applied on the charge side
SocAfterCharge_Loss(c, s, charge_energy) == RAdd(s, RMul(charge_energy, efficiency(c)))

\* soc after charging charge_energy
SocAfterCharge(c, s, charge_energy) == RAdd(s, charge_energy)

\* the whole stored energy delivered, as if nothing were lost
DischargeEnergy_NoEfficiency(c, ih, s) ==
    IF RLt(Zero, s) THEN RMin(RMul(c.capacity_mw, ih), s) ELSE Zero

\* discharge_energy; 0 when the battery is empty
DischargeEnergy(c, ih, s) ==
    IF RLt(Zero, s)
    THEN RMin(RMul(c.capacity_mw, ih), RMul(s, efficiency(c)))
    ELSE Zero

\* the delivered energy removed from the battery, without the loss
SocAfterDischarge_NoLoss(c, s, discharge_energy) == RSub(s, discharge_energy)

\* soc after delivering discharge_energy
SocAfterDischarge(c, s, discharge_energy) ==
    RSub(s, RDiv(discharge_energy, efficiency(c)))

\* the per-interval delta kept instead of the running total
CumulativeNetRevenue_Delta(cum, incremental_net_revenue) == incremental_net_revenue

\* cumulative_net_revenue += incremental_net_revenue
CumulativeNetRevenue(cum, incremental_net_revenue) == RAdd(cum, incremental_net_revenue)

\* the result of one pass of the loop body over a row: the columns written
\* to the row, the new soc and the new cumulative_net_revenue
IntervalResult(c, ih, day, row, s, cum) ==
    LET dt == row.datetime_parsed
        price == <<row.price_eur_per_mwh, 1>>
        branch == Branch(IsCharging(c, day, dt), IsDischarging(c, day, dt))
        ce == IF branch = "charge" THEN ChargeEnergy(c, ih, s) ELSE Zero
        de == IF branch = "discharge" THEN DischargeEnergy(c, ih, s) ELSE Zero
        charged == RLt(Zero, ce)
        discharged == RLt(Zero, de)
        charge_cost == IF charged THEN RNeg(RMul(ce, price)) ELSE Zero
        discharge_revenue == IF discharged THEN RMul(de, price) ELSE Zero
        incremental_net_revenue ==
            IF charged THEN charge_cost
            ELSE IF discharged THEN discharge_revenue
            ELSE Zero
        new_soc == IF charged THEN SocAfterCharge(c, s, ce)
                   ELSE IF discharged THEN SocAfterDischarge(c, s, de)
                   ELSE s
        new_cum == CumulativeNetRevenue(cum, incremental_net_revenue)
    IN  [soc |-> new_soc,
         cum |-> new_cum,
         row |-> [date |-> DateOf(dt),
                  charge_mwh |-> ce,
                  discharge_mwh |-> de,
                  battery_soc |-> new_soc,
                  charge_cost |-> charge_cost,
                  discharge_revenue |-> discharge_revenue,
                  net_revenue |-> new_cum,
                  cycle |-> IF charged \/ discharged THEN CycleNum(c, day, dt) ELSE 0]]

---------------------------------------------------------------------------
(* compute_bess_metrics and the page's compute_price_metrics *)

IsActive(r) == RLt(Zero, r.charge_mwh) \/ RLt(Zero, r.discharge_mwh)
HasCharge(r) == RLt(Zero, r.charge_mwh)
HasDischarge(r) == RLt(Zero, r.discharge_mwh)

\* the column col of a frame, as a sequence
Column(rows, col) == [k \in DOMAIN rows |-> rows[k][col]]

\* sum(cost) / sum(energy), 0.0 when no energy
WeightedPrice(rows, value_col, energy_col) ==
    IF RLt(Zero, RSum(Column(rows, energy_col)))
    THEN RDiv(RSum(Column(rows, value_col)), RSum(Column(rows, energy_col)))
    ELSE Zero

\* avg_discharge_price - avg_charge_price if both are > 0, else 0.0
AvgSpread(avg_charge_price, avg_discharge_price) ==
    IF RLt(Zero, avg_charge_price) /\ RLt(Zero, avg_discharge_price)
    THEN RSub(avg_discharge_price, avg_charge_price)
    ELSE Zero

\* the days counted among the active rows only
NumDaysOf_ActiveOnly(rows) ==
    Cardinality({rows[k].date : k \in {j \in DOMAIN rows : IsActive(rows[j])}})

\* df["date"].nunique()
NumDaysOf(rows) == Cardinality({rows[k].date : k \in DOMAIN rows})

ZeroMetrics ==
    [total_charge_mwh |-> Zero, total_discharge_mwh |-> Zero,
     avg_charge_price |-> Zero, avg_discharge_price |-> Zero,
     avg_spread |-> Zero, total_revenue |-> Zero,
     daily_avg_revenue |-> Zero, total_cycles |-> 0]

compute_bess_metrics(rows) ==
    IF rows = <<>> THEN ZeroMetrics
    ELSE LET active_df == SelectSeq(rows, IsActive)
             charge_hours == SelectSeq(active_df, HasCharge)
             discharge_hours == SelectSeq(active_df, HasDischarge)
             avg_charge_price == WeightedPrice(charge_hours, "charge_cost", "charge_mwh")
             avg_discharge_price ==
                 WeightedPrice(discharge_hours, "discharge_revenue", "discharge_mwh")
             total_revenue == rows[Len(rows)].net_revenue
             num_days == NumDaysOf(rows)
         IN  IF active_df = <<>> THEN ZeroMetrics
             ELSE [total_charge_mwh |-> RSum(Column(active_df, "charge_mwh")),
                   total_discharge_mwh |-> RSum(Column(active_df, "discharge_mwh")),
                   avg_charge_price |-> avg_charge_price,
                   avg_discharge_price |-> avg_discharge_price,
                   avg_spread |-> AvgSpread(avg_charge_price, avg_discharge_price),
                   total_revenue |-> total_revenue,
                   daily_avg_revenue |->
                       IF num_days > 0 THEN RDiv(total_revenue, <<num_days, 1>>)
                       ELSE Zero,
                   total_cycles |->
                       Cardinality({discharge_hours[k].date : k \in DOMAIN discharge_hours})]

\* main's helper for the grouped charts, applied to the rows of one group
compute_price_metrics(group_df) ==
    LET charge_df == SelectSeq(group_df, HasCharge)
        discharge_df == SelectSeq(group_df, HasDischarge)
        avg_charge ==
            IF RLt(Zero, RSum(Column(charge_df, "charge_mwh")))
            THEN RDiv(RAbs(RSum(Column(charge_df, "charge_cost"))),
                      RSum(Column(charge_df, "charge_mwh")))
            ELSE Zero
        avg_discharge == WeightedPrice(discharge_df, "discharge_revenue", "discharge_mwh")
    IN  [avg_charge_price |-> avg_charge,
         avg_discharge_price |-> avg_discharge,
         avg_spread |-> AvgSpread(avg_charge, avg_discharge)]

---------------------------------------------------------------------------
(* The program *)

\* no helper called on its own
CallIdle ==
    /\ call = "none"
    /\ arg = <<>>
    /\ locals = <<>>
    /\ returned = FALSE
    /\ result = <<>>

\* the PV engine not in use
EngineIdle ==
    /\ stage = "idle"
    /\ prices_df = <<>>
    /\ pv_df = <<>>
    /\ joined_df = <<>>
    /\ group_cols = "none"
    /\ captured_price_df = {}
    /\ captured_factor_df = {}
    /\ effective_price_df = {}
    /\ strike = Zero
    /\ ppa = <<>>

Init ==
    /\ entry \in {"main", "call"}
    /\ cfg \in Configs
    /\ df \in SeriesSet
    /\ pc = IF entry = "main" THEN "validate" ELSE "simulate"
    /\ is_valid = "none"
    /\ interval_hours = Zero
    /\ idx = 0
    /\ date = -1
    /\ soc = Zero
    /\ cumulative_net_revenue = Zero
    /\ out = <<>>
    /\ metrics = <<>>
    /\ EngineIdle
    /\ CallIdle

\* the simulation started whatever the verdict (the return left out)
AfterValidation_NoReturn(ok) == "simulate"

\* if not is_valid: st.error(...); return
AfterValidation(ok) == IF ok THEN "simulate" ELSE "error"

\* main: validate_cycles, then st.error and return, or go on to the simulation
Validate ==
    /\ pc = "validate"
    /\ LET ok == validate_cycles(cfg.charge1, cfg.discharge1, cfg.charge2, cfg.discharge2)
       IN  /\ is_valid' = IF ok THEN "yes" ELSE "no"
           /\ pc' = AfterValidation(ok)
    /\ UNCHANGED <<entry, cfg, df, interval_hours, idx, date, soc,
                   cumulative_net_revenue, out, metrics>>
    /\ UNCHANGED engine_vars
    /\ UNCHANGED call_vars

\* simulate_battery_operations, up to the loop over the days
StartSimulation ==
    /\ pc = "simulate"
    /\ interval_hours' = IntervalHours(df)
    /\ cumulative_net_revenue' = Zero
    /\ idx' = 1
    /\ out' = <<>>
    /\ pc' = "day"
    /\ UNCHANGED <<entry, cfg, df, is_valid, date, soc, metrics>>
    /\ UNCHANGED engine_vars
    /\ UNCHANGED call_vars

\* soc carried over from the previous day
SocAtDayStart_Carried(s) == s

\* soc at the top of the loop over the days
SocAtDayStart(s) == Zero

\* for date, day_df in df.groupby("date"): soc = 0.0
StartDay ==
    /\ pc = "day"
    /\ date' = DateOf(df[idx].datetime_parsed)
    /\ soc' = SocAtDayStart(soc)
    /\ pc' = "interval"
    /\ UNCHANGED <<entry, cfg, df, is_valid, interval_hours, idx,
                   cumulative_net_revenue, out, metrics>>
    /\ UNCHANGED engine_vars
    /\ UNCHANGED call_vars

\* for idx, row in day_df.iterrows(): the loop body
ProcessInterval ==
    /\ pc = "interval"
    /\ LET r == IntervalResult(cfg, interval_hours, date, df[idx], soc,
                               cumulative_net_revenue)
       IN  /\ soc' = r.soc
           /\ cumulative_net_revenue' = r.cum
           /\ out' = Append(out, r.row)
    /\ idx' = idx + 1
    /\ pc' = IF idx = Len(df) THEN "done"
             ELSE IF DateOf(df[idx + 1].datetime_parsed) # date THEN "day"
             ELSE "interval"
    /\ UNCHANGED <<entry, cfg, df, is_valid, interval_hours, date, metrics>>
    /\ UNCHANGED engine_vars
    /\ UNCHANGED call_vars

\* metrics = compute_bess_metrics(df_with_bess)
ComputeMetrics ==
    /\ pc = "done"
    /\ metrics' = compute_bess_metrics(out)
    /\ pc' = "reported"
    /\ UNCHANGED <<entry, cfg, df, is_valid, interval_hours, idx, date, soc,
                   cumulative_net_revenue, out>>
    /\ UNCHANGED engine_vars
    /\ UNCHANGED call_vars

Next ==
    \/ Validate
    \/ StartSimulation
    \/ StartDay
    \/ ProcessInterval
    \/ ComputeMetrics

Spec == Init /\ [][Next]_vars

---------------------------------------------------------------------------
(* validate_cycles on its own: main up to its verdict, over more start times *)

\* 08:00 .. 12:00 and 14:00
ValidateTimes == {h * 60 : h \in {8, 9, 10, 11, 12, 14}}

ValidateConfigs ==
    [capacity_mw : {<<10, 1>>}, duration_min : Durations \cup {240},
     efficiency_pct : {90},
     charge1 : ValidateTimes, discharge1 : ValidateTimes,
     charge2 : {NoTime}, discharge2 : {NoTime}]
    \cup
    [capacity_mw : {<<10, 1>>}, duration_min : Durations \cup {240},
     efficiency_pct : {90},
     charge1 : ValidateTimes, discharge1 : ValidateTimes,
     charge2 : ValidateTimes, discharge2 : ValidateTimes]

InitValidate ==
    /\ entry = "main"
    /\ cfg \in ValidateConfigs
    /\ df = Series(60, <<10, 100>>)
    /\ pc = "validate"
    /\ is_valid = "none"
    /\ interval_hours = Zero
    /\ idx = 0
    /\ date = -1
    /\ soc = Zero
    /\ cumulative_net_revenue = Zero
    /\ out = <<>>
    /\ metrics = <<>>
    /\ EngineIdle
    /\ CallIdle

SpecValidate == InitValidate /\ [][Validate]_vars

---------------------------------------------------------------------------
(* Properties of the simulation *)

\* row k is the first row of its calendar day
FirstOfDay(k) ==
    k = 1 \/ DateOf(df[k - 1].datetime_parsed) # DateOf(df[k].datetime_parsed)

\* the row about to be processed, and its window membership
CurDt == df[idx].datetime_parsed
CurPrice == <<df[idx].price_eur_per_mwh, 1>>
CurChargingOnly ==
    IsCharging(cfg, DateOf(CurDt), CurDt) /\ ~IsDischarging(cfg, DateOf(CurDt), CurDt)
CurDischargingOnly ==
    IsDischarging(cfg, DateOf(CurDt), CurDt) /\ ~IsCharging(cfg, DateOf(CurDt), CurDt)
PowerTimesInterval == RMul(cfg.capacity_mw, interval_hours)

C2_ChargeStep ==
    [][(pc = "interval" /\ CurChargingOnly) =>
        LET energy == RMin(PowerTimesInterval,
                           RSub(RMul(cfg.capacity_mw, Rat(cfg.duration_min, 60)), soc))
            flow == RNeg(RMul(energy, CurPrice))
        IN  /\ soc' = RAdd(soc, energy)
            /\ out'[idx].battery_soc = RAdd(soc, energy)
            /\ out'[idx].charge_mwh = energy
            /\ out'[idx].charge_cost = flow
            /\ out'[idx].discharge_mwh = Zero
            /\ out'[idx].discharge_revenue = Zero
            /\ cumulative_net_revenue' = RAdd(cumulative_net_revenue, flow)]_vars

\* C2 witness: a charging interval limited by the remaining capacity, at a
\* non-zero price, with a lossy battery.
C2_Witness ==
    \E k \in DOMAIN out :
        /\ RLt(Zero, out[k].charge_mwh)
        /\ RLt(out[k].charge_mwh, PowerTimesInterval)
        /\ out[k].charge_cost # Zero
        /\ cfg.efficiency_pct < 100

\* C3: an interval in a discharge window and in no charge window delivers
\* energy = min(power x interval_duration, soc x efficiency), removes
\* delivered / efficiency from the state of charge and records the revenue
\* delivered x price.
C3_DischargeStep ==
    [][(pc = "interval" /\ CurDischargingOnly) =>
        LET eta == Rat(cfg.efficiency_pct, 100)
            delivered == RMin(PowerTimesInterval, RMul(soc, eta))
            flow == RMul(delivered, CurPrice)
        IN  /\ soc' = RSub(soc, RDiv(delivered, eta))
            /\ out'[idx].battery_soc = RSub(soc, RDiv(delivered, eta))
            /\ out'[idx].discharge_mwh = delivered
            /\ out'[idx].discharge_revenue = flow
            /\ out'[idx].charge_mwh = Zero
            /\ out'[idx].charge_cost = Zero
            /\ cumulative_net_revenue' = RAdd(cumulative_net_revenue, flow)]_vars

\* C3 witness: with a lossy battery, one discharge at the full rate and one
\* limited by soc x efficiency.
C3_Witness ==
    /\ cfg.efficiency_pct < 100
    /\ \E k \in DOMAIN out, j \in DOMAIN out :
        /\ out[k].discharge_mwh = PowerTimesInterval
        /\ RLt(Zero, out[j].discharge_mwh)
        /\ RLt(out[j].discharge_mwh, PowerTimesInterval)
        /\ out[j].discharge_revenue # Zero

\* C4: the first interval of every calendar day is processed with soc = 0,
\* whatever was stored at the end of the previous day.
C4_DayStartsEmpty ==
    /\ (pc = "interval" /\ FirstOfDay(idx)) => soc = Zero
    /\ \A k \in DOMAIN out :
        FirstOfDay(k) => /\ out[k].battery_soc = out[k].charge_mwh
                         /\ out[k].discharge_mwh = Zero

\* C4 witness: the first interval of a later day about to be processed, the
\* previous day having ended with energy in the battery.
C4_Witness ==
    /\ pc = "interval"
    /\ idx > 1
    /\ FirstOfDay(idx)
    /\ RLt(Zero, out[idx - 1].battery_soc)
    /\ soc = Zero

---------------------------------------------------------------------------
(* Properties of the validation and of the window classification *)

\* row k of the series lies in a charge window and in a discharge window
InBothWindows(k) ==
    /\ IsCharging(cfg, DateOf(df[k].datetime_parsed), df[k].datetime_parsed)
    /\ IsDischarging(cfg, DateOf(df[k].datetime_parsed), df[k].datetime_parsed)

\* C6: for a configuration accepted by validate_cycles, no simulated interval
\* is inside a charge window and inside a discharge window.
C6_AcceptedNeverInBoth ==
    is_valid = "yes" => \A k \in DOMAIN out : ~InBothWindows(k)

\* C7: with two cycles, validation accepts only if cycle 2 ends (discharge
\* start 2 + duration) no later than cycle 1's charge start, or cycle 2's
\* charge start is no earlier than cycle 1's discharge end (discharge start
\* 1 + duration).
C7_AcceptsOnlyDisjointWindows ==
    (is_valid = "yes" /\ TwoCycles(cfg)) =>
        \/ cfg.discharge2 + cfg.duration_min <= cfg.charge1
        \/ cfg.charge2 >= cfg.discharge1 + cfg.duration_min

\* the start times of the two cycles interleave
Interleaved(c) ==
    \/ c.charge1 < c.charge2 /\ c.charge2 < c.discharge1 /\ c.discharge1 < c.discharge2
    \/ c.charge2 < c.charge1 /\ c.charge1 < c.discharge2 /\ c.discharge2 < c.discharge1

\* the start times of one cycle entirely precede those of the other
OnePrecedes(c) ==
    \/ c.charge1 < c.discharge1 /\ c.discharge1 <= c.charge2 /\ c.charge2 < c.discharge2
    \/ c.charge2 < c.discharge2 /\ c.discharge2 <= c.charge1 /\ c.charge1 < c.discharge1

\* C8: validation rejects a charge start that is not strictly before the
\* discharge start (cycle 1 always, cycle 2 when present), rejects two cycles
\* whose start times interleave, and accepts two cycles of which one entirely
\* precedes the other.
C8_ValidationVerdicts ==
    is_valid # "none" =>
        /\ cfg.charge1 >= cfg.discharge1 => is_valid = "no"
        /\ (TwoCycles(cfg) /\ cfg.charge2 >= cfg.discharge2) => is_valid = "no"
        /\ (TwoCycles(cfg) /\ Interleaved(cfg)) => is_valid = "no"
        /\ (TwoCycles(cfg) /\ OnePrecedes(cfg)) => is_valid = "yes"

\* C8 witness: 08:00/10:00 with 09:00/11:00 has been rejected.
C8_Witness ==
    /\ is_valid = "no"
    /\ cfg.charge1 = 8 * 60 /\ cfg.discharge1 = 10 * 60
    /\ cfg.charge2 = 9 * 60 /\ cfg.discharge2 = 11 * 60

\* C9: in main, a failed validation ends the request before any simulation
\* work: the simulation is never started and no row is produced.
C9_NoSimulationWhenInvalid ==
    entry = "main" =>
        /\ is_valid = "no" => (pc = "error" /\ out = <<>> /\ idx = 0)
        /\ pc \in {"simulate", "day", "interval", "done"} => is_valid = "yes"

\* C9 witness: main has stopped on an invalid configuration.
C9_Witness ==
    entry = "main" /\ is_valid = "no" /\ pc = "error"

\* C10 as stated: an interval in a charge window and in a discharge window is
\* simulated as a charging interval.
C10_ChargingTakesPrecedence ==
    [][(pc = "interval" /\ InBothWindows(idx)) =>
        LET energy == RMin(PowerTimesInterval,
                           RSub(RMul(cfg.capacity_mw, Rat(cfg.duration_min, 60)), soc))
        IN  /\ soc' = RAdd(soc, energy)
            /\ out'[idx].charge_mwh = energy
            /\ out'[idx].charge_cost = RNeg(RMul(energy, CurPrice))]_vars

\* C10 amended: an interval in a charge window and in a discharge window is
\* simulated as idle: no energy is added or delivered, no cash flow is
\* recorded and the state of charge is unchanged.
C10_BothWindowsIdle ==
    [][(pc = "interval" /\ InBothWindows(idx)) =>
        /\ soc' = soc
        /\ cumulative_net_revenue' = cumulative_net_revenue
        /\ out'[idx].charge_mwh = Zero
        /\ out'[idx].charge_cost = Zero
        /\ out'[idx].discharge_mwh = Zero
        /\ out'[idx].discharge_revenue = Zero
        /\ out'[idx].battery_soc = soc
        /\ out'[idx].cycle = 0]_vars

\* C10 witness: in main, after a successful validation, an interval in both
\* windows was processed with a battery neither empty nor full, at a
\* non-zero price.
C10_Witness ==
    /\ entry = "main"
    /\ is_valid = "yes"
    /\ \E k \in DOMAIN out :
        /\ InBothWindows(k)
        /\ RLt(Zero, out[k].battery_soc)
        /\ RLt(out[k].battery_soc, RMul(cfg.capacity_mw, Rat(cfg.duration_min, 60)))
        /\ df[k].price_eur_per_mwh # 0

---------------------------------------------------------------------------
(* The PV engine: price series, PV profile, join, aggregations, PPA *)

MaxOutput == 2

\* SQL NULL / float NaN, and the infinities float division can give
NaN == <<0, 0>>
PosInf == <<1, 0>>
NegInf == <<-1, 0>>
notna(x) == x # NaN

\* float division a / b (numpy semantics: no exception on a zero divisor)
FDiv(a, b) ==
    IF a = NaN \/ b = NaN THEN NaN
    ELSE IF b[1] = 0
         THEN IF a[1] > 0 THEN PosInf ELSE IF a[1] < 0 THEN NegInf ELSE NaN
         ELSE IF b[1] > 0 THEN RDiv(a, b) ELSE RDiv(RNeg(a), RNeg(b))

\* float product: a null operand gives a null
FMul(a, b) == IF a = NaN \/ b = NaN THEN NaN ELSE RMul(a, b)

\* the timestamps a price series may hold, in chronological order
Stamps ==
    << [year |-> 2023, month |-> 2, day |-> 28, hour |-> 0],
       [year |-> 2024, month |-> 2, day |-> 28, hour |-> 0],
       [year |-> 2024, month |-> 2, day |-> 29, hour |-> 0],
       [year |-> 2024, month |-> 3, day |-> 1, hour |-> 12] >>

PriceValues == {NaN, <<-5, 1>>, Zero, <<10, 1>>}

Absent == <<0, -1>>

PriceRow(k, price) ==
    [year |-> Stamps[k].year, month |-> Stamps[k].month, day |-> Stamps[k].day,
     hour |-> Stamps[k].hour, price_eur_per_mwh |-> price]

IsPresent(r) == r.price_eur_per_mwh # Absent

\* the frames load_price_series can return over Stamps
PriceSeriesSet ==
    {SelectSeq([k \in DOMAIN Stamps |-> PriceRow(k, f[k])], IsPresent) :
        f \in [DOMAIN Stamps -> PriceValues \cup {Absent}]}

\* the (month, day, hour) keys a PV profile may hold
ProfileKeys ==
    << [month |-> 2, day |-> 28, hour |-> 0],
       [month |-> 2, day |-> 29, hour |-> 0],
       [month |-> 3, day |-> 1, hour |-> 12] >>

ProfileRow(k, output) ==
    [month |-> ProfileKeys[k].month, day |-> ProfileKeys[k].day,
     hour |-> ProfileKeys[k].hour, pv_mwh |-> <<output, 1>>]

HasOutput(r) == r.pv_mwh[1] >= 0

\* the frames load_pv_profile can return: null outputs are dropped
ProfileSet ==
    {SelectSeq([k \in DOMAIN ProfileKeys |-> ProfileRow(k, g[k])], HasOutput) :
        g \in [DOMAIN ProfileKeys -> -1 .. MaxOutput]}

GroupCols == {"year", "month", "hour"}

Strikes == {Zero, <<20, 1>>}

HasPrice_Any(r) == TRUE
\* prices["price_eur_per_mwh"].notna()
HasPrice(r) == notna(r.price_eur_per_mwh)

IsFeb29(r) == r.month = 2 /\ r.day = 29

has_feb29_Never(pv) == FALSE
has_feb29(pv) == \E k \in DOMAIN pv : IsFeb29(pv[k])

SameKey(a, b) == a.month = b.month /\ a.day = b.day /\ a.hour = b.hour

\* a row of the merged frame, with pv_weighted_price_component
JoinedRow(p, q) ==
    [year |-> p.year, month |-> p.month, day |-> p.day, hour |-> p.hour,
     price_eur_per_mwh |-> p.price_eur_per_mwh,
     pv_mwh |-> q.pv_mwh,
     pv_weighted_price_component |-> FMul(p.price_eur_per_mwh, q.pv_mwh)]

\* the rows of r matching the price row p, in the order of r
MatchRows(p, r) ==
    LET hit(q) == SameKey(p, q)
        m == SelectSeq(r, hit)
    IN  [k \in DOMAIN m |-> JoinedRow(p, m[k])]

\* prices.merge(pv, on = month, day, hour, how = "inner"): left order kept
RECURSIVE InnerMerge(_, _)
InnerMerge(l, r) ==
    IF l = <<>> THEN <<>> ELSE MatchRows(Head(l), r) \o InnerMerge(Tail(l), r)

\* an outer merge: profile rows without a price row are kept too
Merge_Outer(l, r) ==
    LET unmatched(q) == \A k \in DOMAIN l : ~SameKey(l[k], q)
        extra == SelectSeq(r, unmatched)
    IN  InnerMerge(l, r) \o
        [k \in DOMAIN extra |->
            [year |-> 0, month |-> extra[k].month, day |-> extra[k].day,
             hour |-> extra[k].hour, price_eur_per_mwh |-> NaN,
             pv_mwh |-> extra[k].pv_mwh, pv_weighted_price_component |-> NaN]]

Merge(l, r) == InnerMerge(l, r)

\* the price rows that reach the merge
FilteredPrices(prices, pv) ==
    LET valid == SelectSeq(prices, HasPrice)
        notFeb29(r) == ~IsFeb29(r)
    IN  IF has_feb29(pv) THEN valid ELSE SelectSeq(valid, notFeb29)

join_price_with_pv(prices, pv) ==
    IF prices = <<>> \/ pv = <<>> THEN <<>>
    ELSE Merge(FilteredPrices(prices, pv), pv)

GroupKeys(rows, g) == {rows[k][g] : k \in DOMAIN rows}

GroupRows(rows, g, key) ==
    LET inGroup(r) == r[g] = key IN SelectSeq(rows, inGroup)

KeepGroup_All(x) == TRUE
\* grouped["sum_pv"] > 0
KeepGroup(x) == RLt(Zero, x.sum_pv)

compute_captured_price_aggregations(rows, g) ==
    IF rows = <<>> THEN {}
    ELSE LET grouped ==
                 {[key |-> key,
                   sum_price_pv |->
                       RSum(Column(GroupRows(rows, g, key), "pv_weighted_price_component")),
                   sum_pv |-> RSum(Column(GroupRows(rows, g, key), "pv_mwh"))] :
                     key \in GroupKeys(rows, g)}
         IN  {[key |-> x.key, captured_price |-> FDiv(x.sum_price_pv, x.sum_pv)] :
                 x \in {y \in grouped : KeepGroup(y)}}

\* Series.mean(): nulls are skipped, NaN when nothing is left
Mean(values) ==
    LET present == SelectSeq(values, notna)
    IN  IF present = <<>> THEN NaN
        ELSE RDiv(RSum(present), <<Len(present), 1>>)

BaseloadFrame_Joined(joined, prices) == joined
\* the frame the baseload price is averaged over
BaseloadFrame(joined, prices) == prices

compute_captured_factor_aggregations(joined, prices, g) ==
    IF joined = <<>> \/ prices = <<>> THEN {}
    ELSE LET captured == compute_captured_price_aggregations(joined, g)
             base == BaseloadFrame(joined, prices)
             baseload_price(key) ==
                 Mean(Column(GroupRows(base, g, key), "price_eur_per_mwh"))
         IN  {[key |-> x.key,
               captured_factor |-> FDiv(x.captured_price, baseload_price(x.key))] :
                 x \in {y \in captured : y.key \in GroupKeys(base, g)}}

\* eligibility that looks at the size of the price
Eligible_AboveOne(price) == IF RLt(<<1, 1>>, price) THEN 1 ELSE 0

Eligible_NonNegative(price) == IF RLe(Zero, price) THEN 1 ELSE 0
\* (df["price_eur_per_mwh"] > 0).astype(int)
Eligible(price) == IF RLt(Zero, price) THEN 1 ELSE 0

PpaRevenue_Ungated(pv_mwh, k, eligible) == RMul(pv_mwh, k)
\* df["pv_mwh"] * strike * df["eligible"]
PpaRevenue(pv_mwh, k, eligible) == RMul(RMul(pv_mwh, k), <<eligible, 1>>)

compute_ppa_metrics(rows, k) ==
    IF rows = <<>>
    THEN [eligible |-> <<>>, ppa_revenue |-> <<>>, total_gen |-> Zero,
          total_rev |-> Zero, effective_price |-> Zero, pct_eligible |-> Zero]
    ELSE LET eligible == [i \in DOMAIN rows |-> Eligible(rows[i].price_eur_per_mwh)]
             ppa_revenue ==
                 [i \in DOMAIN rows |-> PpaRevenue(rows[i].pv_mwh, k, eligible[i])]
             total_gen == RSum(Column(rows, "pv_mwh"))
             total_rev == RSum(ppa_revenue)
             eligible_gen ==
                 RSum([i \in DOMAIN rows |->
                          IF eligible[i] = 1 THEN rows[i].pv_mwh ELSE Zero])
         IN  [eligible |-> eligible,
              ppa_revenue |-> ppa_revenue,
              total_gen |-> total_gen,
              total_rev |-> total_rev,
              effective_price |->
                  IF RLt(Zero, total_gen) THEN RDiv(total_rev, total_gen) ELSE Zero,
              pct_eligible |->
                  IF RLt(Zero, total_gen)
                  THEN RMul(RDiv(eligible_gen, total_gen), <<100, 1>>)
                  ELSE Zero]

\* the battery page not in use
BatteryIdle ==
    /\ entry = "none"
    /\ pc = "off"
    /\ cfg = <<>>
    /\ df = <<>>
    /\ is_valid = "none"
    /\ interval_hours = Zero
    /\ idx = 0
    /\ date = -1
    /\ soc = Zero
    /\ cumulative_net_revenue = Zero
    /\ out = <<>>
    /\ metrics = <<>>

InitEngine ==
    /\ BatteryIdle
    /\ CallIdle
    /\ stage = "start"
    /\ prices_df \in PriceSeriesSet
    /\ pv_df \in ProfileSet
    /\ joined_df = <<>>
    /\ group_cols = "none"
    /\ captured_price_df = {}
    /\ captured_factor_df = {}
    /\ effective_price_df = {}
    /\ strike = Zero
    /\ ppa = <<>>

\* joined = join_price_with_pv(prices, pv)
Join ==
    /\ stage = "start"
    /\ joined_df' = join_price_with_pv(prices_df, pv_df)
    /\ stage' = "joined"
    /\ UNCHANGED <<prices_df, pv_df, group_cols, captured_price_df,
                   captured_factor_df, effective_price_df, strike, ppa>>
    /\ UNCHANGED battery_vars
    /\ UNCHANGED call_vars

\* compute_captured_price_aggregations(joined, [g])
CapturedPrice(g) ==
    /\ stage = "joined"
    /\ group_cols' = g
    /\ captured_price_df' = compute_captured_price_aggregations(joined_df, g)
    /\ stage' = "captured"
    /\ UNCHANGED <<prices_df, pv_df, joined_df, captured_factor_df,
                   effective_price_df, strike, ppa>>
    /\ UNCHANGED battery_vars
    /\ UNCHANGED call_vars

\* compute_captured_factor_aggregations(joined, prices, [g])
CapturedFactor(g) ==
    /\ stage = "joined"
    /\ group_cols' = g
    /\ captured_factor_df' =
           compute_captured_factor_aggregations(joined_df, prices_df, g)
    /\ stage' = "factor"
    /\ UNCHANGED <<prices_df, pv_df, joined_df, captured_price_df,
                   effective_price_df, strike, ppa>>
    /\ UNCHANGED battery_vars
    /\ UNCHANGED call_vars

\* metrics = compute_ppa_metrics(joined, strike_price)
PPAMetrics(k) ==
    /\ stage = "joined"
    /\ strike' = k
    /\ ppa' = compute_ppa_metrics(joined_df, k)
    /\ stage' = "ppa"
    /\ UNCHANGED <<prices_df, pv_df, joined_df, group_cols, captured_price_df,
                   captured_factor_df, effective_price_df>>
    /\ UNCHANGED battery_vars
    /\ UNCHANGED call_vars

\* metrics["df"]: the joined frame with the eligible and ppa_revenue columns
DfWithMetrics(rows, m) ==
    [i \in DOMAIN rows |->
        [year |-> rows[i].year, month |-> rows[i].month, day |-> rows[i].day,
         hour |-> rows[i].hour, price_eur_per_mwh |-> rows[i].price_eur_per_mwh,
         pv_mwh |-> rows[i].pv_mwh, eligible |-> m.eligible[i],
         ppa_revenue |-> m.ppa_revenue[i]]]

GroupedEffectivePrice_Unguarded(total_revenue, total_pv) ==
    FDiv(total_revenue, total_pv)
\* row["total_revenue"] / row["total_pv"] if row["total_pv"] > 0 else 0.0
GroupedEffectivePrice(total_revenue, total_pv) ==
    IF RLt(Zero, total_pv) THEN RDiv(total_revenue, total_pv) ELSE Zero

compute_ppa_effective_price_aggregations(rows, g) ==
    IF rows = <<>> THEN {}
    ELSE {[key |-> key,
           effective_price |->
               GroupedEffectivePrice(
                   RSum(Column(GroupRows(rows, g, key), "ppa_revenue")),
                   RSum(Column(GroupRows(rows, g, key), "pv_mwh")))] :
             key \in GroupKeys(rows, g)}

\* compute_ppa_effective_price_aggregations(df_with_metrics, [g])
PPAGrouped(g) ==
    /\ stage = "ppa"
    /\ group_cols' = g
    /\ effective_price_df' =
           compute_ppa_effective_price_aggregations(DfWithMetrics(joined_df, ppa), g)
    /\ stage' = "ppa_grouped"
    /\ UNCHANGED <<prices_df, pv_df, joined_df, captured_price_df,
                   captured_factor_df, strike, ppa>>
    /\ UNCHANGED battery_vars
    /\ UNCHANGED call_vars

\* join_price_with_pv on its own
SpecJoin == InitEngine /\ [][Join]_vars

\* the captured-price and captured-factor pages
NextCaptured ==
    \/ Join
    \/ \E g \in GroupCols : CapturedPrice(g)
    \/ \E g \in GroupCols : CapturedFactor(g)

SpecCaptured == InitEngine /\ [][NextCaptured]_vars

\* the PPA effective-price page
NextPPA ==
    \/ Join
    \/ \E k \in Strikes : PPAMetrics(k)
    \/ \E g \in GroupCols : PPAGrouped(g)

SpecPPA == InitEngine /\ [][NextPPA]_vars

---------------------------------------------------------------------------
(* Claims about compute_bess_metrics *)

Reported == pc = "reported"

BothSidesActive ==
    /\ RLt(Zero, metrics.total_charge_mwh)
    /\ RLt(Zero, metrics.total_discharge_mwh)

\* C11: whenever the simulated series has both charging and discharging
\* activity the reported avg_spread is the average discharge price minus the
\* average charge price, and avg_spread is 0 only when one side has no
\* activity.  The code returns 0 for every series with positive prices.
C11_SpreadIsDifference ==
    Reported =>
        /\ BothSidesActive =>
               metrics.avg_spread =
                   RSub(metrics.avg_discharge_price, metrics.avg_charge_price)
        /\ metrics.avg_spread = Zero => ~BothSidesActive

ChargeRows == SelectSeq(out, HasCharge)

AllChargePricesPositive ==
    \A k \in DOMAIN out : HasCharge(out[k]) => df[k].price_eur_per_mwh > 0

\* C12: the reported average charge price is |sum(charge_cost)| /
\* sum(charge energy), is positive when every charging price is positive, and
\* equals what compute_price_metrics yields on the same rows.  The code
\* reports the signed quotient, which is negative there.
C12_ChargePriceIsMagnitude ==
    (Reported /\ ChargeRows # <<>>) =>
        /\ metrics.avg_charge_price =
               RDiv(RAbs(RSum(Column(ChargeRows, "charge_cost"))),
                    RSum(Column(ChargeRows, "charge_mwh")))
        /\ AllChargePricesPositive => RLt(Zero, metrics.avg_charge_price)
        /\ metrics.avg_charge_price =
               compute_price_metrics(SelectSeq(out, IsActive)).avg_charge_price

DaysPresent == {DateOf(df[k].datetime_parsed) : k \in DOMAIN df}

DaysWithDischarge ==
    {d \in DaysPresent :
        \E k \in DOMAIN out : out[k].date = d /\ HasDischarge(out[k])}

DaysWithoutActivity ==
    {d \in DaysPresent :
        \A k \in DOMAIN out : out[k].date = d => ~IsActive(out[k])}

\* C13: total_revenue is the cumulative net revenue stored on the last
\* interval, daily_avg_revenue is total_revenue divided by the number of
\* distinct days of the series (days without activity included), and
\* total_cycles is the number of distinct days with a discharging interval.
C13_RevenueAndCycles ==
    Reported =>
        /\ metrics.total_revenue = out[Len(out)].net_revenue
        /\ metrics.total_revenue = cumulative_net_revenue
        /\ metrics.daily_avg_revenue =
               RDiv(metrics.total_revenue, <<Cardinality(DaysPresent), 1>>)
        /\ metrics.total_cycles = Cardinality(DaysWithDischarge)

C13_Witness ==
    /\ Reported
    /\ DaysWithoutActivity # {}
    /\ DaysWithDischarge # {}
    /\ metrics.total_revenue # Zero


---------------------------------------------------------------------------
(* Claims about join_price_with_pv *)

Joined == stage # "start"

\* the price rows with a price
NonNullPrices == {k \in DOMAIN prices_df : prices_df[k].price_eur_per_mwh # NaN}

Feb29Prices ==
    {k \in NonNullPrices : prices_df[k].month = 2 /\ prices_df[k].day = 29}

ProfileDefinesFeb29 ==
    \E k \in DOMAIN pv_df : pv_df[k].month = 2 /\ pv_df[k].day = 29

\* the number of price rows left after null-price and Feb-29 filtering
FilteredPriceCount ==
    IF ProfileDefinesFeb29 THEN Cardinality(NonNullPrices)
    ELSE Cardinality(NonNullPrices \ Feb29Prices)

SameStamp(a, b) ==
    a.year = b.year /\ a.month = b.month /\ a.day = b.day /\ a.hour = b.hour

InProfile(r) == \E k \in DOMAIN pv_df : SameKey(r, pv_df[k])

MinOf(a, b) == IF a < b THEN a ELSE b

\* C14 as stated: the number of joined rows is at most min(filtered price
\* rows, profile rows).  Two price rows of different years match the same
\* profile row, so the result can have more rows than the profile.
C14_RowsAtMostMin ==
    Joined => Len(joined_df) <= MinOf(FilteredPriceCount, Len(pv_df))

\* C14: for a profile with at most one row per (month, day, hour), the number
\* of joined rows is at most the number of price rows left after null-price
\* and Feb-29 filtering, and every joined row stems from a price row of its
\* own.
C14_RowsAtMostFilteredPrices ==
    Joined =>
        /\ Len(joined_df) <= FilteredPriceCount
        /\ \A i \in DOMAIN joined_df :
               /\ \E k \in NonNullPrices : SameStamp(joined_df[i], prices_df[k])
               /\ \A j \in DOMAIN joined_df :
                      SameStamp(joined_df[i], joined_df[j]) => i = j

C14_Witness ==
    /\ Joined
    /\ Len(joined_df) = FilteredPriceCount
    /\ Len(joined_df) > Len(pv_df)
    /\ \E k \in DOMAIN prices_df : prices_df[k].price_eur_per_mwh = NaN

\* the profile has a row for every key of the price series other than Feb 29
ProfileCoversOtherKeys ==
    \A k \in DOMAIN prices_df :
        ~(prices_df[k].month = 2 /\ prices_df[k].day = 29) => InProfile(prices_df[k])

\* C15: when the profile has no Feb-29 row the result has no Feb-29 row, and
\* if the profile covers every other key of the price series the result has
\* count(non-null price rows) - count(Feb-29 rows among them) rows; when the
\* profile defines Feb 29, the non-null Feb-29 price rows are in the result.
C15_Feb29Handling ==
    Joined =>
        /\ ~ProfileDefinesFeb29 =>
               /\ \A i \in DOMAIN joined_df :
                      ~(joined_df[i].month = 2 /\ joined_df[i].day = 29)
               /\ (pv_df # <<>> /\ ProfileCoversOtherKeys) =>
                      Len(joined_df) =
                          Cardinality(NonNullPrices) - Cardinality(Feb29Prices)
        /\ ProfileDefinesFeb29 =>
               \A k \in Feb29Prices :
                   InProfile(prices_df[k]) =>
                       \E i \in DOMAIN joined_df : SameStamp(joined_df[i], prices_df[k])

C15_Witness ==
    /\ Joined
    /\ ~ProfileDefinesFeb29
    /\ ProfileCoversOtherKeys
    /\ Feb29Prices # {}
    /\ Len(joined_df) = 2

C15_WitnessLeapProfile ==
    /\ Joined
    /\ ProfileDefinesFeb29
    /\ \E i \in DOMAIN joined_df : joined_df[i].month = 2 /\ joined_df[i].day = 29

\* C16: every joined row pairs one price row that has a price with one
\* profile row of the same (month, day, hour) and carries price x output; no
\* two joined rows stem from the same pair; an empty price series or an empty
\* profile gives an empty result.
C16_RowsArePairs ==
    Joined =>
        /\ \A i \in DOMAIN joined_df :
               \E k \in DOMAIN prices_df, q \in DOMAIN pv_df :
                   /\ SameStamp(joined_df[i], prices_df[k])
                   /\ prices_df[k].price_eur_per_mwh # NaN
                   /\ joined_df[i].price_eur_per_mwh = prices_df[k].price_eur_per_mwh
                   /\ SameKey(prices_df[k], pv_df[q])
                   /\ joined_df[i].pv_mwh = pv_df[q].pv_mwh
                   /\ joined_df[i].pv_weighted_price_component =
                          RMul(prices_df[k].price_eur_per_mwh, pv_df[q].pv_mwh)
        /\ \A i, j \in DOMAIN joined_df :
               SameStamp(joined_df[i], joined_df[j]) => i = j
        /\ (prices_df = <<>> \/ pv_df = <<>>) => joined_df = <<>>

C16_Witness ==
    /\ Joined
    /\ joined_df # <<>>
    /\ \E k \in DOMAIN prices_df : prices_df[k].price_eur_per_mwh = NaN
    /\ \E k \in DOMAIN prices_df :
           prices_df[k].price_eur_per_mwh # NaN /\ ~InProfile(prices_df[k])
    /\ \E q \in DOMAIN pv_df :
           ~\E k \in DOMAIN prices_df : SameKey(prices_df[k], pv_df[q])


---------------------------------------------------------------------------
(* Claims about the captured-price and captured-factor aggregations *)

\* the joined rows of the group key under the grouping applied
JoinedGroup(key) == GroupRows(joined_df, group_cols, key)

SumOutput(key) == RSum(Column(JoinedGroup(key), "pv_mwh"))

SumPriceOutput(key) ==
    RSum([k \in DOMAIN JoinedGroup(key) |->
             RMul(JoinedGroup(key)[k].price_eur_per_mwh, JoinedGroup(key)[k].pv_mwh)])

JoinedKeys == {joined_df[k][group_cols] : k \in DOMAIN joined_df}

\* C17: for each group of the joined rows whose summed output is > 0 the
\* result has exactly one row, with captured_price = sum(price x output) /
\* sum(output) over the group; a group whose summed output is <= 0 has no row.
C17_CapturedPricePerGroup ==
    stage = "captured" =>
        /\ \A key \in JoinedKeys :
               LET rows == {x \in captured_price_df : x.key = key}
               IN  IF RLt(Zero, SumOutput(key))
                   THEN /\ Cardinality(rows) = 1
                        /\ \A x \in rows :
                               RMul(x.captured_price, SumOutput(key)) = SumPriceOutput(key)
                   ELSE rows = {}
        /\ \A x \in captured_price_df : x.key \in JoinedKeys

C17_Witness ==
    /\ stage = "captured"
    /\ \E key \in JoinedKeys :
           /\ SumOutput(key) = Zero
           /\ ~\E x \in captured_price_df : x.key = key
    /\ \E x \in captured_price_df :
           /\ Len(JoinedGroup(x.key)) >= 2
           /\ \A k \in DOMAIN JoinedGroup(x.key) :
                  /\ JoinedGroup(x.key)[k].price_eur_per_mwh # x.captured_price
                  /\ RLt(Zero, JoinedGroup(x.key)[k].pv_mwh)

\* the non-null prices of the full price series in the group key
GroupPrices(key) ==
    LET inGroup(r) == r[group_cols] = key /\ r.price_eur_per_mwh # NaN
    IN  Column(SelectSeq(prices_df, inGroup), "price_eur_per_mwh")

BaseloadPrice(key) == RDiv(RSum(GroupPrices(key)), <<Len(GroupPrices(key)), 1>>)

CapturedPriceOf(key) == RDiv(SumPriceOutput(key), SumOutput(key))

\* the price rows of the group that did not reach the join
ExcludedFromJoin(key) ==
    {k \in DOMAIN prices_df :
        /\ prices_df[k][group_cols] = key
        /\ prices_df[k].price_eur_per_mwh # NaN
        /\ ~\E i \in DOMAIN joined_df : SameStamp(joined_df[i], prices_df[k])}

\* C18: the captured factor of a group is its captured price divided by the
\* mean price over all rows of the full price series in the group, rows left
\* out of the join included; a group is in the result exactly if it has a
\* captured price.
C18_FactorOverFullSeries ==
    stage = "factor" =>
        /\ {x.key : x \in captured_factor_df} =
               {key \in JoinedKeys : RLt(Zero, SumOutput(key))}
        /\ \A x \in captured_factor_df :
               /\ x.captured_factor = FDiv(CapturedPriceOf(x.key), BaseloadPrice(x.key))
               /\ \A y \in captured_factor_df : y.key = x.key => y = x

C18_Witness ==
    /\ stage = "factor"
    /\ \E x \in captured_factor_df :
           /\ ExcludedFromJoin(x.key) # {}
           /\ \E k \in ExcludedFromJoin(x.key) :
                  prices_df[k].month = 2 /\ prices_df[k].day = 29
           /\ x.captured_factor[2] # 0
           /\ BaseloadPrice(x.key) #
                  Mean(Column(JoinedGroup(x.key), "price_eur_per_mwh"))


---------------------------------------------------------------------------
(* Claims about compute_ppa_metrics *)

\* the spec's example: prices -5, 0, 5, 10 with output 1 each
ExampleFrame ==
    << [price_eur_per_mwh |-> <<-5, 1>>, pv_mwh |-> <<1, 1>>],
       [price_eur_per_mwh |-> Zero, pv_mwh |-> <<1, 1>>],
       [price_eur_per_mwh |-> <<5, 1>>, pv_mwh |-> <<1, 1>>],
       [price_eur_per_mwh |-> <<10, 1>>, pv_mwh |-> <<1, 1>>] >>

ExampleMetrics == compute_ppa_metrics(ExampleFrame, <<20, 1>>)

PositivePrice(i) == joined_df[i].price_eur_per_mwh[1] > 0

TotalGeneration == RSum(Column(joined_df, "pv_mwh"))

\* C19: an interval is eligible exactly when its price is > 0, its
\* ppa_revenue is output x strike x eligible, and effective_price is
\* sum(ppa_revenue) / sum(output), or 0 when total generation is 0; prices
\* [-5, 0, 5, 10] with output 1 and strike 20 give eligible [0, 0, 1, 1],
\* total revenue 40 and effective price 10.
C19_EligibilityAndEffectivePrice ==
    /\ stage = "ppa" =>
           /\ DOMAIN ppa.eligible = DOMAIN joined_df
           /\ \A i \in DOMAIN joined_df :
                  /\ ppa.eligible[i] = IF PositivePrice(i) THEN 1 ELSE 0
                  /\ ppa.ppa_revenue[i] =
                         IF PositivePrice(i) THEN RMul(joined_df[i].pv_mwh, strike)
                         ELSE Zero
           /\ ppa.total_rev = RSum(ppa.ppa_revenue)
           /\ IF RLt(Zero, TotalGeneration)
              THEN RMul(ppa.effective_price, TotalGeneration) = ppa.total_rev
              ELSE ppa.effective_price = Zero
    /\ ExampleMetrics.eligible = <<0, 0, 1, 1>>
    /\ ExampleMetrics.total_rev = <<40, 1>>
    /\ ExampleMetrics.effective_price = <<10, 1>>

C19_Witness ==
    /\ stage = "ppa"
    /\ strike = <<20, 1>>
    /\ \E i, j, k \in DOMAIN joined_df :
           /\ joined_df[i].price_eur_per_mwh = Zero
           /\ joined_df[j].price_eur_per_mwh[1] < 0
           /\ joined_df[k].price_eur_per_mwh[1] > 0
           /\ RLt(Zero, joined_df[i].pv_mwh)
           /\ RLt(Zero, joined_df[j].pv_mwh)
           /\ RLt(Zero, joined_df[k].pv_mwh)
    /\ RLt(Zero, ppa.effective_price)

\* generation in at least one eligible and at least one ineligible interval
MixedGeneration ==
    /\ \E i \in DOMAIN joined_df : PositivePrice(i) /\ RLt(Zero, joined_df[i].pv_mwh)
    /\ \E i \in DOMAIN joined_df : ~PositivePrice(i) /\ RLt(Zero, joined_df[i].pv_mwh)

SeriesPrices ==
    {prices_df[k].price_eur_per_mwh : k \in NonNullPrices}

EligibleGeneration ==
    RSum([i \in DOMAIN joined_df |->
             IF PositivePrice(i) THEN joined_df[i].pv_mwh ELSE Zero])

\* C20 as stated: with generation in an eligible and in an ineligible interval
\* the effective price lies strictly between the minimum and the maximum price
\* of the series.  The effective price does not depend on the size of the
\* prices: strike 20 with prices -5 and 10 and equal output gives 10.
C20_BetweenMinAndMaxPrice ==
    (stage = "ppa" /\ MixedGeneration) =>
        /\ \A p \in SeriesPrices :
               (\A q \in SeriesPrices : RLe(p, q)) => RLt(p, ppa.effective_price)
        /\ \A p \in SeriesPrices :
               (\A q \in SeriesPrices : RLe(q, p)) => RLt(ppa.effective_price, p)

\* C20: with generation in an eligible and in an ineligible interval and a
\* strike > 0, the effective price is strike x (eligible generation / total
\* generation), strictly between 0 and the strike; with strike 0 it is 0.
C20_BetweenZeroAndStrike ==
    (stage = "ppa" /\ MixedGeneration) =>
        /\ RMul(ppa.effective_price, TotalGeneration) = RMul(strike, EligibleGeneration)
        /\ RLt(Zero, strike) =>
               RLt(Zero, ppa.effective_price) /\ RLt(ppa.effective_price, strike)
        /\ strike = Zero => ppa.effective_price = Zero

C20_Witness ==
    /\ stage = "ppa"
    /\ MixedGeneration
    /\ RLt(Zero, strike)
    /\ \A p \in SeriesPrices : RLt(p, ppa.effective_price)


---------------------------------------------------------------------------
(* Claims about compute_ppa_effective_price_aggregations *)

GroupRevenue(key) ==
    RSum([k \in DOMAIN JoinedGroup(key) |->
             IF JoinedGroup(key)[k].price_eur_per_mwh[1] > 0
             THEN RMul(JoinedGroup(key)[k].pv_mwh, strike) ELSE Zero])

\* C21: the grouped effective price has one row for every group of its
\* input, with effective_price = sum(ppa_revenue) / sum(output), and 0 for a
\* group whose summed output is zero; the captured-price aggregation of the
\* same joined data and grouping has no row for that zero-output group.
C21_ZeroFilledGroups ==
    stage = "ppa_grouped" =>
        /\ {x.key : x \in effective_price_df} = JoinedKeys
        /\ \A x, y \in effective_price_df : x.key = y.key => x = y
        /\ \A x \in effective_price_df :
               IF SumOutput(x.key) = Zero
               THEN /\ x.effective_price = Zero
                    /\ ~\E c \in compute_captured_price_aggregations(joined_df, group_cols) :
                           c.key = x.key
               ELSE RMul(x.effective_price, SumOutput(x.key)) = GroupRevenue(x.key)

C21_Witness ==
    /\ stage = "ppa_grouped"
    /\ \E x \in effective_price_df : SumOutput(x.key) = Zero
    /\ \E x \in effective_price_df :
           /\ RLt(Zero, x.effective_price)
           /\ RLt(x.effective_price, strike)
    /\ compute_captured_price_aggregations(joined_df, group_cols) # {}


---------------------------------------------------------------------------
(* Claims about zero denominators *)

IsFinite(x) == x[2] # 0

\* C22: no aggregation yields a non-finite value on a zero denominator: a
\* group whose denominator is zero is dropped or reported as 0.  The captured
\* factor of a group whose mean price is 0 is an infinity or NaN.
C22_NoNonFiniteValue ==
    /\ stage = "captured" =>
           \A x \in captured_price_df : IsFinite(x.captured_price)
    /\ stage = "factor" =>
           \A x \in captured_factor_df :
               /\ IsFinite(x.captured_factor)
               /\ BaseloadPrice(x.key) = Zero => x.captured_factor = Zero


---------------------------------------------------------------------------
(* chart_config.py: ensure_all_months, ensure_all_days, ensure_all_hours *)

DAY_ORDER ==
    <<"Monday", "Tuesday", "Wednesday", "Thursday", "Friday", "Saturday", "Sunday">>

\* list(range(1, 13))
MonthsDomain == [k \in 1 .. 12 |-> k]
\* DAY_ORDER with list(range(7))
DaysDomain == [k \in 1 .. 7 |-> <<DAY_ORDER[k], k - 1>>]
\* list(range(24))
HoursDomain == [k \in 1 .. 24 |-> k - 1]

fillna_Keep(v) == v
\* DataFrame.fillna(0.0): every null cell becomes 0.0
fillna(v) == IF v = NaN THEN Zero ELSE v

\* all_values.merge(df, on = key, how = "left"): one row per match, a row of
\* nulls for a value without a match
RECURSIVE LeftMerge(_, _)
LeftMerge(domain, frame) ==
    IF domain = <<>> THEN <<>>
    ELSE LET hit(r) == r.key = Head(domain)
             m == SelectSeq(frame, hit)
         IN  (IF m = <<>> THEN <<[key |-> Head(domain), value |-> NaN]>> ELSE m)
             \o LeftMerge(Tail(domain), frame)

EnsureAll(domain, frame) ==
    LET merged == LeftMerge(domain, frame)
    IN  [i \in DOMAIN merged |->
            [key |-> merged[i].key, value |-> fillna(merged[i].value)]]

ensure_all_months(frame) == EnsureAll(MonthsDomain, frame)
\* the merged frame is in the order of weekday_order, which the sort keeps
ensure_all_days(frame) == EnsureAll(DaysDomain, frame)
ensure_all_hours(frame) == EnsureAll(HoursDomain, frame)

\* the metric values an aggregation can hand over
MetricValues == {<<5, 1>>, NaN, PosInf}

\* the keys the input frames are built from; the last one is outside the domain
MonthKeys == <<1, 6, 12, 13>>
DayKeys == <<<<"Monday", 0>>, <<"Thursday", 3>>, <<"Sunday", 6>>, <<"Monday", 3>>>>
HourKeys == <<0, 12, 23, 24>>

IsRow(r) == r.value # Absent

\* the frames with at most one row per key
Frames(keys) ==
    {SelectSeq([k \in DOMAIN keys |-> [key |-> keys[k], value |-> f[k]]], IsRow) :
        f \in [DOMAIN keys -> MetricValues \cup {Absent}]}

InitEnsure ==
    /\ BatteryIdle
    /\ EngineIdle
    /\ call \in {"ensure_all_months", "ensure_all_days", "ensure_all_hours"}
    /\ arg \in Frames(CASE call = "ensure_all_months" -> MonthKeys
                         [] call = "ensure_all_days" -> DayKeys
                         [] OTHER -> HourKeys)
    /\ locals = <<>>
    /\ returned = FALSE
    /\ result = <<>>

EnsureAllMonths ==
    /\ call = "ensure_all_months" /\ ~returned
    /\ result' = ensure_all_months(arg)
    /\ returned' = TRUE
    /\ UNCHANGED <<call, arg, locals>>
    /\ UNCHANGED <<battery_vars, engine_vars>>

EnsureAllDays ==
    /\ call = "ensure_all_days" /\ ~returned
    /\ result' = ensure_all_days(arg)
    /\ returned' = TRUE
    /\ UNCHANGED <<call, arg, locals>>
    /\ UNCHANGED <<battery_vars, engine_vars>>

EnsureAllHours ==
    /\ call = "ensure_all_hours" /\ ~returned
    /\ result' = ensure_all_hours(arg)
    /\ returned' = TRUE
    /\ UNCHANGED <<call, arg, locals>>
    /\ UNCHANGED <<battery_vars, engine_vars>>

NextEnsure == EnsureAllMonths \/ EnsureAllDays \/ EnsureAllHours

SpecEnsure == InitEnsure /\ [][NextEnsure]_vars

---------------------------------------------------------------------------
(* Claims about ensure_all_months, ensure_all_days, ensure_all_hours *)

EnsureReturned ==
    returned /\ call \in {"ensure_all_months", "ensure_all_days", "ensure_all_hours"}

\* the domain of the helper called, as a set
EnsureDomain ==
    CASE call = "ensure_all_months" -> 1 .. 12
      [] call = "ensure_all_days" -> {<<DAY_ORDER[k], k - 1>> : k \in 1 .. 7}
      [] OTHER -> 0 .. 23

ResultRows(key) == {i \in DOMAIN result : result[i].key = key}
ArgRows(key) == {i \in DOMAIN arg : arg[i].key = key}

\* exactly one row per domain value and no row outside the domain
OneRowPerDomainValue ==
    /\ \A key \in EnsureDomain : Cardinality(ResultRows(key)) = 1
    /\ \A i \in DOMAIN result : result[i].key \in EnsureDomain

\* C23 as stated: one row per domain value, values present in the input keep
\* their metric unchanged, absent values get 0.  A value present with a null
\* metric comes back as 0, not unchanged.
C23_PresentUnchangedAbsentZero ==
    EnsureReturned =>
        /\ OneRowPerDomainValue
        /\ \A key \in EnsureDomain : \A i \in ResultRows(key) :
               IF ArgRows(key) = {} THEN result[i].value = Zero
               ELSE \A j \in ArgRows(key) : result[i].value = arg[j].value

\* C23: one row per domain value and none outside the domain; a value
\* present in the input with a non-null metric keeps it, a value absent from
\* the input or present with a null metric gets 0.
C23_NullOrAbsentIsZero ==
    EnsureReturned =>
        /\ OneRowPerDomainValue
        /\ \A key \in EnsureDomain : \A i \in ResultRows(key) :
               IF ArgRows(key) = {} THEN result[i].value = Zero
               ELSE \A j \in ArgRows(key) :
                       result[i].value =
                           IF arg[j].value = NaN THEN Zero ELSE arg[j].value

C23_Witness ==
    /\ EnsureReturned
    /\ \E i \in DOMAIN arg : arg[i].value = NaN /\ arg[i].key \in EnsureDomain
    /\ \E i \in DOMAIN arg : arg[i].value = <<5, 1>> /\ arg[i].key \in EnsureDomain
    /\ \E i \in DOMAIN arg : arg[i].key \notin EnsureDomain
    /\ \E key \in EnsureDomain : ArgRows(key) = {}


---------------------------------------------------------------------------
(* utils.py: parse_timestamp, and the loaders' use of it *)

\* A timestamp string is held as the numerals it starts with (year, month,
\* day, hour, minute, second) and what follows them: nothing, "Z", an offset
\* "+HH:MM" / "-HH:MM", or text that is no offset.
NumeralSets ==
    {<<2015, 1, 1, 1, 0, 0>>, <<2024, 2, 29, 23, 45, 0>>, <<2023, 2, 29, 0, 0, 0>>,
     <<2015, 13, 1, 0, 0, 0>>, <<2015, 1, 1, 24, 0, 0>>}

Suffix(kind, sign, hh, mm) == [kind |-> kind, sign |-> sign, hh |-> hh, mm |-> mm]

Suffixes ==
    {Suffix("none", 1, 0, 0), Suffix("Z", 1, 0, 0), Suffix("junk", 1, 0, 0),
     Suffix("offset", 1, 0, 0), Suffix("offset", 1, 1, 0),
     Suffix("offset", -1, 5, 30), Suffix("offset", 1, 25, 0)}

TimestampStrings == [numerals : NumeralSets, suffix : Suffixes]

IsLeap(y) == (y % 4 = 0 /\ y % 100 # 0) \/ y % 400 = 0

DaysInMonth(y, m) ==
    IF m = 2 THEN (IF IsLeap(y) THEN 29 ELSE 28)
    ELSE IF m \in {4, 6, 9, 11} THEN 30 ELSE 31

\* the field ranges datetime accepts
ValidFields(n) ==
    /\ n[1] \in 1 .. 9999
    /\ n[2] \in 1 .. 12
    /\ n[3] \in 1 .. DaysInMonth(n[1], n[2])
    /\ n[4] \in 0 .. 23
    /\ n[5] \in 0 .. 59
    /\ n[6] \in 0 .. 59

\* None, and the failed parse
None == [ok |-> FALSE, fields |-> <<>>, aware |-> FALSE, utcoffset |-> 0]

\* if s.endswith("Z"): s = s[:-1] + "+00:00"
ReplaceZ(s) ==
    IF s.suffix.kind = "Z" THEN [s EXCEPT !.suffix = Suffix("offset", 1, 0, 0)] ELSE s

\* datetime.fromisoformat: a ValueError is the value None here
fromisoformat(s) ==
    IF /\ ValidFields(s.numerals)
       /\ s.suffix.kind \in {"none", "offset"}
       /\ s.suffix.kind = "offset" => (s.suffix.hh \in 0 .. 23 /\ s.suffix.mm \in 0 .. 59)
    THEN [ok |-> TRUE, fields |-> s.numerals,
          aware |-> s.suffix.kind = "offset",
          utcoffset |-> IF s.suffix.kind = "offset"
                        THEN s.suffix.sign * (s.suffix.hh * 60 + s.suffix.mm) ELSE 0]
    ELSE None

\* the wall clock moved to UTC before the offset is dropped
DropTzinfo_AsUtc(dt) ==
    LET minutes == (dt.fields[4] * 60 + dt.fields[5] - dt.utcoffset) % MinutesPerDay
    IN  [ok |-> TRUE,
         fields |-> <<dt.fields[1], dt.fields[2], dt.fields[3],
                      minutes \div 60, minutes % 60, dt.fields[6]>>,
         aware |-> FALSE, utcoffset |-> 0]

\* dt.replace(tzinfo=None)
DropTzinfo(dt) == [dt EXCEPT !.aware = FALSE, !.utcoffset = 0]

parse_timestamp(ts) ==
    LET dt == fromisoformat(ReplaceZ(ts))
    IN  IF dt.ok THEN DropTzinfo(dt) ELSE None

\* parsed = df["datetime"].apply(parse_timestamp); rows with notna() kept
RECURSIVE LoadRows(_)
LoadRows(strings) ==
    IF strings = <<>> THEN <<>>
    ELSE LET parsed == parse_timestamp(Head(strings))
         IN  (IF parsed = None THEN <<>>
              ELSE <<[datetime |-> Head(strings), datetime_parsed |-> parsed]>>)
             \o LoadRows(Tail(strings))

\* the datetime columns a loader reads: up to two rows
DatetimeColumns ==
    {<<>>} \cup {<<a>> : a \in TimestampStrings}
           \cup {<<a, b>> : a \in TimestampStrings, b \in TimestampStrings}

InitTimestamp ==
    /\ BatteryIdle
    /\ EngineIdle
    /\ \/ call = "parse_timestamp" /\ arg \in TimestampStrings
       \/ call = "load_price_data" /\ arg \in DatetimeColumns
    /\ locals = <<>>
    /\ returned = FALSE
    /\ result = <<>>

ParseTimestamp ==
    /\ call = "parse_timestamp" /\ ~returned
    /\ result' = parse_timestamp(arg)
    /\ returned' = TRUE
    /\ UNCHANGED <<call, arg, locals>>
    /\ UNCHANGED <<battery_vars, engine_vars>>

LoadPriceData ==
    /\ call = "load_price_data" /\ ~returned
    /\ result' = LoadRows(arg)
    /\ returned' = TRUE
    /\ UNCHANGED <<call, arg, locals>>
    /\ UNCHANGED <<battery_vars, engine_vars>>

NextTimestamp == ParseTimestamp \/ LoadPriceData

SpecTimestamp == InitTimestamp /\ [][NextTimestamp]_vars

---------------------------------------------------------------------------
(* Claims about parse_timestamp *)

\* the string has valid numerals followed by nothing, Z or a valid offset
Parseable(ts) ==
    /\ ValidFields(ts.numerals)
    /\ \/ ts.suffix.kind \in {"none", "Z"}
       \/ ts.suffix.kind = "offset" /\ ts.suffix.hh <= 23 /\ ts.suffix.mm <= 59

\* the naive timestamp whose wall-clock fields are the numerals n
Naive(n) == [ok |-> TRUE, fields |-> n, aware |-> FALSE, utcoffset |-> 0]

ParseableRows == {k \in DOMAIN arg : Parseable(arg[k])}

\* C24: a parseable string yields the naive timestamp whose fields are the
\* numerals of the string, whatever its offset (Z, +00:00, another offset or
\* none); a string that cannot be parsed yields None, and the loader drops
\* that row and keeps the others, in order.
C24_OffsetIgnored ==
    /\ (returned /\ call = "parse_timestamp") =>
           result = IF Parseable(arg) THEN Naive(arg.numerals) ELSE None
    /\ (returned /\ call = "load_price_data") =>
           /\ Len(result) = Cardinality(ParseableRows)
           /\ \A k \in ParseableRows :
                  LET pos == Cardinality({j \in ParseableRows : j <= k})
                  IN  /\ result[pos].datetime = arg[k]
                      /\ result[pos].datetime_parsed = Naive(arg[k].numerals)

C24_Witness ==
    /\ returned
    /\ call = "load_price_data"
    /\ Len(arg) = 2
    /\ Len(result) = 1
    /\ result[1].datetime.suffix = Suffix("offset", -1, 5, 30)
    /\ result[1].datetime_parsed.fields = <<2024, 2, 29, 23, 45, 0>>

C24_WitnessSameNumerals ==
    /\ returned
    /\ call = "load_price_data"
    /\ Len(result) = 2
    /\ result[1].datetime.suffix = Suffix("Z", 1, 0, 0)
    /\ result[2].datetime.suffix = Suffix("offset", 1, 1, 0)
    /\ result[1].datetime_parsed = result[2].datetime_parsed


---------------------------------------------------------------------------
(* backfill_omie.py: parse_omie_file *)

\* the day the file is for
FileDate == [year |-> 2025, month |-> 10, day |-> 26]

\* a data row Year;Month;Day;Period;Price1;Price2; with an empty Price1 as NaN
DataLine(period, price_sp) == [period |-> period, price_sp |-> price_sp]

\* the data rows of a file with periods 1..n, the second without a Spain price
\* when gap, followed by a row of period 0 when stray
FileLines(n, gap, stray) ==
    [p \in 1 .. n |-> DataLine(p, IF gap /\ p = 2 THEN NaN ELSE <<p, 1>>)]
    \o (IF stray THEN <<DataLine(0, <<1, 1>>)>> ELSE <<>>)

\* hourly files of 23, 24 and 25 periods (the clock-change days have 23 and
\* 25 hours) and quarter-hourly files of 92, 96 and 100 periods
HourlyPeriodCounts == {23, 24, 25}
QuarterPeriodCounts == {92, 96, 100}

OmieFiles ==
    {[kind |-> "hourly", lines |-> FileLines(n, gap, stray)] :
        n \in HourlyPeriodCounts, gap \in BOOLEAN, stray \in BOOLEAN}
    \cup
    {[kind |-> "quarter", lines |-> FileLines(n, gap, stray)] :
        n \in QuarterPeriodCounts, gap \in BOOLEAN, stray \in BOOLEAN}

\* max_period = max(max_period, period) over the rows, from 0
MaxPeriod(lines) ==
    LET periods == {lines[k].period : k \in DOMAIN lines} \cup {0}
    IN  CHOOSE m \in periods : \A q \in periods : q <= m

QuarterHour_OneBased(period) == period \div 4
\* hour = period_0_indexed // 4
QuarterHour(period) == (period - 1) \div 4
\* minute = (period_0_indexed % 4) * 15
QuarterMinute(period) == ((period - 1) % 4) * 15

\* the rows one data row adds: none when it is skipped
ParsedRows(line, is_15min) ==
    LET hour == IF is_15min THEN QuarterHour(line.period) ELSE line.period - 1
        minute == IF is_15min THEN QuarterMinute(line.period) ELSE 0
    IN  IF line.price_sp = NaN THEN <<>>
        ELSE IF is_15min /\ hour > 23 THEN <<>>
        ELSE IF ~is_15min /\ (hour < 0 \/ hour > 23) THEN <<>>
        ELSE IF ~ValidFields(<<FileDate.year, FileDate.month, FileDate.day,
                               hour, minute, 0>>) THEN <<>>
        ELSE <<[year |-> FileDate.year, month |-> FileDate.month,
                day |-> FileDate.day, hour |-> hour, minute |-> minute,
                OMIE_SP_DA_prices |-> line.price_sp]>>

InitOmie ==
    /\ BatteryIdle
    /\ EngineIdle
    /\ call = "parse_omie_file"
    /\ arg \in OmieFiles
    /\ locals = [pc |-> "detect", line |-> 0, max_period |-> 0, is_15min_data |-> FALSE]
    /\ returned = FALSE
    /\ result = <<>>

\* the first loop: max_period, is_15min_data = max_period > 24
DetectResolution ==
    /\ call = "parse_omie_file" /\ locals.pc = "detect"
    /\ locals' = [pc |-> "lines", line |-> 1,
                 max_period |-> MaxPeriod(arg.lines),
                 is_15min_data |-> MaxPeriod(arg.lines) > 24]
    /\ UNCHANGED <<call, arg, returned, result>>
    /\ UNCHANGED <<battery_vars, engine_vars>>

\* one pass of the second loop, and the return after the last row
ParseLine ==
    /\ call = "parse_omie_file" /\ locals.pc = "lines"
    /\ result' = result \o ParsedRows(arg.lines[locals.line], locals.is_15min_data)
    /\ IF locals.line = Len(arg.lines)
       THEN locals' = [locals EXCEPT !.pc = "done"] /\ returned' = TRUE
       ELSE locals' = [locals EXCEPT !.line = locals.line + 1] /\ UNCHANGED returned
    /\ UNCHANGED <<call, arg>>
    /\ UNCHANGED <<battery_vars, engine_vars>>

NextOmie == DetectResolution \/ ParseLine

SpecOmie == InitOmie /\ [][NextOmie]_vars

---------------------------------------------------------------------------
(* Claims about parse_omie_file *)

OmieReturned == call = "parse_omie_file" /\ returned

\* the data rows with a Spain price whose period is in periods
LinesWithin(periods) ==
    {k \in DOMAIN arg.lines :
        arg.lines[k].price_sp # NaN /\ arg.lines[k].period \in periods}

\* the result holds one row per line of ks, in the order of the file, the
\* row of line k having the hour and minute that hm gives for its period
EmitsExactly(ks, hm(_)) ==
    /\ Len(result) = Cardinality(ks)
    /\ \A k \in ks :
           LET pos == Cardinality({j \in ks : j <= k})
           IN  /\ result[pos].hour = hm(arg.lines[k].period)[1]
               /\ result[pos].minute = hm(arg.lines[k].period)[2]
               /\ result[pos].OMIE_SP_DA_prices = arg.lines[k].price_sp

QuarterClock(p) == <<(p - 1) \div 4, ((p - 1) % 4) * 15>>
HourClock(p) == <<p - 1, 0>>

\* C25: in a file whose maximum period exceeds 24 every row with period p is
\* emitted as hour (p-1) // 4, minute ((p-1) % 4) x 15 (period 1 -> 00:00,
\* period 96 -> 23:45), rows whose hour would exceed 23 are discarded, every
\* emitted row has hour in 0..23 and minute in {0, 15, 30, 45}, and distinct
\* periods give distinct (hour, minute).
C25_QuarterHourMapping ==
    (OmieReturned /\ MaxPeriod(arg.lines) > 24) =>
        /\ EmitsExactly(LinesWithin(1 .. 96), QuarterClock)
        /\ \A i \in DOMAIN result :
               result[i].hour \in 0 .. 23 /\ result[i].minute \in {0, 15, 30, 45}
        /\ \A i, j \in DOMAIN result :
               (result[i].hour = result[j].hour /\ result[i].minute = result[j].minute)
                   => i = j
        /\ QuarterClock(1) = <<0, 0>>
        /\ QuarterClock(96) = <<23, 45>>

C25_Witness ==
    /\ OmieReturned
    /\ arg.kind = "quarter"
    /\ Len(arg.lines) = 101
    /\ arg.lines[2].price_sp = NaN
    /\ Len(result) = 95
    /\ result[95].hour = 23 /\ result[95].minute = 45
    /\ result[1].hour = 0 /\ result[1].minute = 0

\* C27: for a file that holds hourly data every row with period p in 1..24
\* is emitted as hour p-1, minute 0, and rows whose hour would be outside
\* 0..23 are skipped, also when the file carries a 25th period.  A file with
\* a 25th period is parsed as quarter-hourly instead.
C27_HourlyMapping ==
    (OmieReturned /\ arg.kind = "hourly") =>
        EmitsExactly(LinesWithin(1 .. 24), HourClock)


---------------------------------------------------------------------------
(* The simulator on series of other resolutions *)

\* a series that changes resolution: hourly on its first day, quarter-hourly
\* from the second day on
MixedSeries ==
    LET firstDay(r) == DateOf(r.datetime_parsed) = 0
        laterDay(r) == DateOf(r.datetime_parsed) > 0
    IN  SelectSeq(Series(60, <<10, 100>>), firstDay)
        \o SelectSeq(Series(15, <<10, 100>>), laterDay)

\* series of one step (10, 20, 30 and 5 minutes), the mixed series and a
\* series of a single row
ResolutionSeries ==
    {Series(step, <<10, 100>>) : step \in {5, 10, 20, 30}}
    \cup {MixedSeries, SubSeq(Series(60, <<10, 100>>), 1, 1)}

ResolutionConfigs ==
    [capacity_mw : Powers, duration_min : {60}, efficiency_pct : {90},
     charge1 : Times, discharge1 : Times,
     charge2 : {NoTime}, discharge2 : {NoTime}]

InitResolution ==
    /\ entry \in {"main", "call"}
    /\ cfg \in ResolutionConfigs
    /\ df \in ResolutionSeries
    /\ pc = IF entry = "main" THEN "validate" ELSE "simulate"
    /\ is_valid = "none"
    /\ interval_hours = Zero
    /\ idx = 0
    /\ date = -1
    /\ soc = Zero
    /\ cumulative_net_revenue = Zero
    /\ out = <<>>
    /\ metrics = <<>>
    /\ EngineIdle
    /\ CallIdle

SpecResolution == InitResolution /\ [][Next]_vars

\* the simulation has fixed its interval duration
DurationFixed == pc \in {"day", "interval", "done", "reported"}

\* the minutes from row k to the next row of the series
GapAfter(k) == df[k + 1].datetime_parsed - df[k].datetime_parsed

\* C26: the run has one interval duration, 0.25 h exactly when the median of
\* the consecutive timestamp differences lies in [10, 20] minutes and 1.0 h
\* otherwise (a single row included), and each interval that charges or
\* discharges does so with the duration of its own resolution: 1.0 h for an
\* hourly interval, 0.25 h for a quarter-hourly one.  In a series that
\* changes resolution the one duration is applied to both kinds of interval.
C26_DurationMatchesResolution ==
    DurationFixed =>
        /\ interval_hours =
               IF /\ Len(df) > 1
                  /\ MedianTimes2(time_diffs(df)) >= 20
                  /\ MedianTimes2(time_diffs(df)) <= 40
               THEN Rat(1, 4) ELSE Rat(1, 1)
        /\ \A k \in DOMAIN out :
               (IsActive(out[k]) /\ k < Len(df)) =>
                   /\ GapAfter(k) = 60 => interval_hours = Rat(1, 1)
                   /\ GapAfter(k) = 15 => interval_hours = Rat(1, 4)


---------------------------------------------------------------------------
(* Energy balance of a day *)

LastRow == out[Len(out)]

\* the column col of the rows of the last row's day, 0 for the other rows
SameDayColumn(col) ==
    LET day == out[Len(out)].date
    IN  [j \in DOMAIN out |-> IF out[j].date = day THEN out[j][col] ELSE Zero]

ChargedSoFar == RSum(SameDayColumn("charge_mwh"))
DeliveredSoFar == RSum(SameDayColumn("discharge_mwh"))

\* C28: at every interval, the energy delivered so far that day is at most
\* efficiency x the energy charged so far that day, the recorded state of
\* charge is (charged so far) - (delivered so far) / efficiency, and the
\* interval does not both charge and discharge.
C28_DailyEnergyBalance ==
    out # <<>> =>
        LET charged == ChargedSoFar
            delivered == DeliveredSoFar
        IN  /\ RLe(delivered, RMul(efficiency(cfg), charged))
            /\ LastRow.battery_soc = RSub(charged, RDiv(delivered, efficiency(cfg)))
            /\ ~(HasCharge(LastRow) /\ HasDischarge(LastRow))

C28_Witness ==
    /\ out # <<>>
    /\ cfg.efficiency_pct = 90
    /\ LastRow.date = 1
    /\ HasDischarge(LastRow)
    /\ RLt(Zero, LastRow.battery_soc)
    /\ RLt(DeliveredSoFar, RMul(efficiency(cfg), ChargedSoFar))


---------------------------------------------------------------------------
(* The simulator around midnight *)

\* an hourly series holding the hours 00, 01, 22 and 23 of each day
MidnightSeries ==
    LET hours == <<0, 1, 22, 23>>
    IN  [k \in 1 .. (NumDays * 4) |->
            [datetime_parsed |-> ((k - 1) \div 4) * MinutesPerDay
                                   + hours[((k - 1) % 4) + 1] * 60,
             price_eur_per_mwh |-> <<10, 100>>[((k - 1) % 2) + 1]]]

\* windows that start late in the evening; 120 minutes from 23:00 run past
\* midnight
MidnightConfigs ==
    [capacity_mw : Powers, duration_min : {60, 120}, efficiency_pct : {90},
     charge1 : {22 * 60, 23 * 60}, discharge1 : {23 * 60, 60},
     charge2 : {NoTime}, discharge2 : {NoTime}]

InitMidnight ==
    /\ entry \in {"main", "call"}
    /\ cfg \in MidnightConfigs
    /\ df = MidnightSeries
    /\ pc = IF entry = "main" THEN "validate" ELSE "simulate"
    /\ is_valid = "none"
    /\ interval_hours = Zero
    /\ idx = 0
    /\ date = -1
    /\ soc = Zero
    /\ cumulative_net_revenue = Zero
    /\ out = <<>>
    /\ metrics = <<>>
    /\ EngineIdle
    /\ CallIdle

SpecMidnight == InitMidnight /\ [][Next]_vars

\* the timestamp of the row processed last
LastDt == df[Len(out)].datetime_parsed

\* dt lies in the window of the given start time anchored on the given day
WithinWindowOf(anchor, start, dt) ==
    /\ anchor * MinutesPerDay + start <= dt
    /\ dt < anchor * MinutesPerDay + start + cfg.duration_min

\* C29: an interval dated D charges only inside a charge window anchored on D
\* and discharges only inside a discharge window anchored on D; a window of
\* day D that runs past midnight does nothing on day D+1, and what is
\* delivered on a day comes from what was charged on that day.
C29_WindowsAnchoredOnOwnDate ==
    out # <<>> =>
        LET day == LastDt \div MinutesPerDay
        IN  /\ LastRow.date = day
            /\ HasCharge(LastRow) =>
                   \/ WithinWindowOf(day, cfg.charge1, LastDt)
                   \/ cfg.charge2 # NoTime /\ WithinWindowOf(day, cfg.charge2, LastDt)
            /\ HasDischarge(LastRow) =>
                   \/ WithinWindowOf(day, cfg.discharge1, LastDt)
                   \/ cfg.discharge2 # NoTime /\ WithinWindowOf(day, cfg.discharge2, LastDt)
            /\ RLe(DeliveredSoFar, RMul(efficiency(cfg), ChargedSoFar))

\* the row of 01:00 on a day after the first: the charge window of the day
\* before ran over 00:00, energy was left in the battery at 23:00, the 00:00
\* row stayed idle and the 01:00 row, inside its own discharge window,
\* delivers nothing
C29_Witness ==
    /\ Len(out) >= 3
    /\ LastDt % MinutesPerDay = 60
    /\ LastDt \div MinutesPerDay >= 1
    /\ WithinWindowOf(LastDt \div MinutesPerDay, cfg.discharge1, LastDt)
    /\ WithinWindowOf(LastDt \div MinutesPerDay - 1, cfg.charge1, LastDt - 60)
    /\ RLt(Zero, out[Len(out) - 2].battery_soc)
    /\ ~IsActive(out[Len(out) - 1])
    /\ out[Len(out) - 1].battery_soc = Zero
    /\ ~HasDischarge(LastRow)

---------------------------------------------------------------------------
(* The effective price as a share of the strike *)

\* the joined frame with every price replaced by its sign
SignOnly(rows) ==
    [i \in DOMAIN rows |->
        [rows[i] EXCEPT !.price_eur_per_mwh =
            IF rows[i].price_eur_per_mwh[1] > 0 THEN <<1, 1>>
            ELSE IF rows[i].price_eur_per_mwh[1] < 0 THEN <<-1, 1>>
            ELSE Zero]]

\* C30: with non-negative outputs, positive total generation and a strike
\* >= 0, effective_price lies between 0 and the strike, equals
\* strike x pct_eligible / 100, and is the same for any prices of the same
\* signs.
C30_ShareOfStrike ==
    (stage = "ppa" /\ RLt(Zero, TotalGeneration)) =>
        /\ RLe(Zero, ppa.effective_price)
        /\ RLe(ppa.effective_price, strike)
        /\ ppa.effective_price = RDiv(RMul(strike, ppa.pct_eligible), <<100, 1>>)
        /\ RMul(ppa.pct_eligible, TotalGeneration) =
               RMul(<<100, 1>>, EligibleGeneration)
        /\ ppa.effective_price =
               compute_ppa_metrics(SignOnly(joined_df), strike).effective_price

C30_Witness ==
    /\ stage = "ppa"
    /\ strike = <<20, 1>>
    /\ MixedGeneration
    /\ SignOnly(joined_df) # joined_df
    /\ RLt(Zero, ppa.effective_price)
    /\ RLt(ppa.effective_price, strike)


====
